---- MODULE Spec2Model ----
(***************************************************************************)
(* Model of the request orchestration of the Font Analyzer client          *)
(* (typography/src/App.tsx, handleSubmit).  The title a call works on is   *)
(* the value of initialPrompt ?? prompt, an input of the call.             *)
(*                                                                         *)
(* Strings are sequences: a title is a sequence of characters (so that     *)
(* String.prototype.trim is computed), a message is a sequence of text     *)
(* fragments (so that String.prototype.includes and template literals are  *)
(* computed), and so is a font name (so that trim and the replacement of   *)
(* its whitespace are computed).  A nullable value is a sequence of length *)
(* 0 (null) or 1.                                                          *)
(*                                                                         *)
(* handleSubmit is an async function: every invocation that passes the     *)
(* early returns owns a slot of pc/currentPrompt/i/response and is         *)
(* suspended at its awaits; each action below is the synchronous code      *)
(* between two awaits.  The effect that loads the font runs after the      *)
(* render that a changed result causes; it is part of the action that      *)
(* changes result.                                                         *)
(***************************************************************************)
EXTENDS Integers, Sequences, FiniteSets, TLC

\* ------------------------------------------------------------------ bounds
\* longest title typed or passed by a caller
MaxTitleLen == 2
\* invocations of handleSubmit that can be suspended at the same time
MaxInvocations == 2

\* --------------------------------------------------------- nullable values
None == <<>>
Some(x) == <<x>>

\* ------------------------------------------------------------------ titles
Chars == {" ", "a"}

\* the strings of exactly n characters
RECURSIVE TitlesOfLen(_)
TitlesOfLen(n) ==
  IF n = 0 THEN {<<>>}
  ELSE {Append(t, c) : t \in TitlesOfLen(n - 1), c \in Chars}

Titles == UNION {TitlesOfLen(n) : n \in 0..MaxTitleLen}

IsWhitespace(c) == c = " "

RECURSIVE trimStart(_)
trimStart(s) ==
  IF s # <<>> /\ IsWhitespace(Head(s)) THEN trimStart(Tail(s)) ELSE s

RECURSIVE trimEnd(_)
trimEnd(s) ==
  IF s # <<>> /\ IsWhitespace(s[Len(s)])
  THEN trimEnd(SubSeq(s, 1, Len(s) - 1))
  ELSE s

\* String.prototype.trim
trim(s) == trimEnd(trimStart(s))

\* ---------------------------------------------------------------- messages
\* String.prototype.includes on sequences of fragments
includes(s, needle) ==
  \E k \in 1..(Len(s) - Len(needle) + 1) :
     SubSeq(s, k, k + Len(needle) - 1) = needle

API_URL == "http://localhost:3000/api/suggest-font"

MOCK_FONT_SUGGESTION ==
  [font_name |-> <<"Press", " ", "Start", " ", "2P">>,
   reason    |-> "Network connection failed. Showing mock response for debugging.",
   ref       |-> "mock"]

MsgEnterTitle == <<"Please enter a title to analyze.">>

MsgMockActive ==
  <<"[MOCK ACTIVE] API server not found at ", API_URL,
    ". Displaying mock font: ">> \o MOCK_FONT_SUGGESTION.font_name \o <<".">>

MsgServerError(errorMsg) == <<"Server Error: ">> \o errorMsg \o <<".">>

MsgHttpError(response) ==
  <<"HTTP error! status: ",
    IF response # None THEN ToString(response[1].status) ELSE "Network Error">>

\* message of the TypeError raised by reading a property of null
MsgNullDeref == <<"Cannot read properties of null (reading 'details')">>

\* message of the SyntaxError raised by Response.json() on a malformed body
MsgBadJson == <<"Unexpected token < in JSON at position 0">>

\* ------------------------------------------------------ program constants
maxRetries == 3
BaseDelayMs == 500

\* mutant of backoff: the delay does not grow
backoffConstant(k) == BaseDelayMs

\* setTimeout delay after attempt i: Math.pow(2, i) * 500
backoff(k) == (2 ^ k) * BaseDelayMs


\* ------------------------------------------------------- remote service
\* statuses the remote service answers with: success, non-retryable client
\* error, not found, server error
Statuses == {200, 400, 404, 503}

\* Response.ok
ok(response) == response.status >= 200 /\ response.status <= 299

\* messages of the TypeError a failing fetch rejects with (they differ
\* between browsers; the third is WebKit's)
FetchErrors ==
  { <<"Failed to fetch">>,
    <<"NetworkError", " when attempting to fetch resource.">>,
    <<"Load failed">> }

\* a field that is absent from a parsed object
UNDEFINED == "undefined"

\* values of the details field of an error body
DetailsTexts ==
  { <<"The model is overloaded.">>,
    <<"request to upstream failed, reason: ", "Failed to fetch">>,
    <<>> }

\* what Response.json() yields for an error response: an object with or
\* without details, the JSON value null, or a rejection (body is not JSON)
ErrorBodies ==
  {[kind |-> "object", details |-> Some(d)] : d \in DetailsTexts}
    \cup {[kind |-> "object",  details |-> None],
          [kind |-> "null",    details |-> None],
          [kind |-> "invalid", details |-> None]}

\* what Response.json() yields for a success response: a full suggestion
\* (one with a font name the model padded with a space), an object lacking
\* a field, the JSON value null, or a rejection (body is not JSON)
SuccessBodies ==
  { [kind |-> "object",  font_name |-> <<"Roboto">>,       reason |-> "Clean and neutral."],
    [kind |-> "object",  font_name |-> <<" ", "Lobster">>, reason |-> "Playful script."],
    [kind |-> "object",  font_name |-> <<"Roboto">>,       reason |-> UNDEFINED],
    [kind |-> "null",    font_name |-> <<>>,               reason |-> UNDEFINED],
    [kind |-> "invalid", font_name |-> <<>>,               reason |-> UNDEFINED] }

\* ------------------------------------------------------------------- state
VARIABLES
  result,          \* useState: the displayed FontSuggestion or null
  loading,         \* useState
  error,           \* useState: message or null
  inFlightRef,     \* useRef: re-entrancy latch
  lastPromptRef,   \* useRef: last resolved prompt or null
  pc,              \* per invocation: the await it is suspended at
  currentPrompt,   \* per invocation: const currentPrompt
  i,               \* per invocation: loop index
  response,        \* per invocation: let response (its status) or null
  attempts,        \* per invocation: fetch calls issued so far
  outcomes,        \* per invocation: what each finished attempt gave
  delays,          \* per invocation: backoff timers waited, in order
  resultUpdate,    \* per invocation: what its setResult updater returned
  network,         \* requests sent and not yet answered
  lastCall,        \* which return path the latest handleSubmit call took
  currentFontRef,  \* useRef: the font last applied or null
  head,            \* document.head: the link elements injected, in order
  mounted,         \* the component is rendered (no render has thrown)
  resolvedWith     \* the fields of the data lastPromptRef was written with

vars == <<result, loading, error, inFlightRef, lastPromptRef, pc,
          currentPrompt, i, response, attempts, outcomes, delays,
          resultUpdate, network, lastCall, currentFontRef, head, mounted,
          resolvedWith>>

locals == <<currentPrompt, i, response, attempts, outcomes, delays>>

\* what only a resolution of a submission changes besides result
page == <<currentFontRef, head, mounted, resolvedWith>>

\* "kept" when the updater returned prev itself, "replaced" otherwise
updateKind(prev, next) == IF next = prev THEN "kept" ELSE "replaced"

Procs == 1..MaxInvocations

Suspended == {"fetch", "backoff", "errJson", "okJson", "mockDelay"}

Init ==
  /\ result = None
  /\ loading = FALSE
  /\ error = None
  /\ inFlightRef = FALSE
  /\ lastPromptRef = None
  /\ pc = [p \in Procs |-> "idle"]
  /\ currentPrompt = [p \in Procs |-> <<>>]
  /\ i = [p \in Procs |-> 0]
  /\ response = [p \in Procs |-> None]
  /\ attempts = [p \in Procs |-> 0]
  /\ outcomes = [p \in Procs |-> <<>>]
  /\ delays = [p \in Procs |-> <<>>]
  /\ resultUpdate = [p \in Procs |-> "none"]
  /\ network = {}
  /\ lastCall = "none"
  /\ currentFontRef = None
  /\ head = <<>>
  /\ mounted = TRUE
  /\ resolvedWith = None

\* ---------------------------------------------------------- handleSubmit
\* JavaScript truthiness of a string: non-empty
truthy(str) == str # <<>>

\* mutant of trimmedPrompt: the title is used as typed
untrimmedPrompt(title) == title

\* (initialPrompt ?? prompt).trim(), title being the value of
\* initialPrompt ?? prompt: the argument or else the text of the input field
trimmedPrompt(title) == trim(title)

\* mutant of inFlightCheck: the latch is never consulted
inFlightCheckOmitted == FALSE

\* if (inFlightRef.current) return;
inFlightCheck == inFlightRef

\* mutant of samePromptCheck: the last prompt is never consulted
samePromptCheckOmitted(cp) == FALSE

\* lastPromptRef.current && lastPromptRef.current === currentPrompt
samePromptCheck(cp) ==
  /\ lastPromptRef # None
  /\ truthy(lastPromptRef[1])
  /\ lastPromptRef[1] = cp

\* response.status === 404 || response.status >= 500
retryable(status) == status = 404 \/ status >= 500

\* errorMsg.includes("Failed to fetch") || errorMsg.includes("NetworkError")
isNetworkError(errorMsg) ==
  includes(errorMsg, <<"Failed to fetch">>) \/ includes(errorMsg, <<"NetworkError">>)

\* object identity (what === on objects compares): MOCK_FONT_SUGGESTION is
\* one object; the value parsed from a response is an object that is not the
\* one displayed
freshRef(prev) ==
  IF prev # None /\ prev[1].ref = "obj0" THEN "obj1" ELSE "obj0"

\* mutant of keepIfSame: the parsed object is always stored
alwaysReplace(prev, data) == Some(data)

\* the updater passed to setResult
keepIfSame(prev, data) ==
  IF /\ prev # None
     /\ prev[1].font_name = data.font_name
     /\ prev[1].reason = data.reason
  THEN prev
  ELSE Some(data)

\* the font_name and the reason of a suggestion, without its identity
fields(suggestion) ==
  [font_name |-> suggestion.font_name, reason |-> suggestion.reason]

\* ------------------------------------------------------------ font loader
\* fontName.replace(/\s/g, "+")
formattedFontName(fontName) ==
  [k \in 1..Len(fontName) |-> IF IsWhitespace(fontName[k]) THEN "+" ELSE fontName[k]]

\* the href of the stylesheet of a font
fontLink(fontName) ==
  <<"https://fonts.googleapis.com/css2?family=">>
    \o formattedFontName(fontName) \o <<":wght@400;700;900&display=swap">>

\* the link element loadGoogleFont creates
linkElement(fontName) ==
  [id |-> "google-font-link", href |-> fontLink(fontName), fontName |-> fontName]

\* document.getElementById: the position of the first element with this
\* id, 0 for null
getElementById(doc, id) ==
  LET hits == {k \in 1..Len(doc) : doc[k].id = id}
  IN IF hits = {} THEN 0 ELSE CHOOSE k \in hits : \A m \in hits : k <= m

\* Element.remove() of the element at position k
remove(doc, k) == SubSeq(doc, 1, k - 1) \o SubSeq(doc, k + 1, Len(doc))

\* mutant of loadGoogleFont: the existing link is not removed
loadGoogleFontKeepsLink(doc, fontName) ==
  LET existingLink == getElementById(doc, "google-font-link") IN
  IF ~truthy(fontName) THEN doc
  ELSE IF existingLink # 0 /\ doc[existingLink].fontName = fontName THEN doc
  ELSE Append(doc, linkElement(fontName))

\* loadGoogleFont(fontName): document.head after the call
loadGoogleFont(doc, fontName) ==
  LET existingLink == getElementById(doc, "google-font-link") IN
  IF ~truthy(fontName) THEN doc
  ELSE IF existingLink # 0 /\ doc[existingLink].fontName = fontName THEN doc
  ELSE Append(IF existingLink # 0 THEN remove(doc, existingLink) ELSE doc,
              linkElement(fontName))

\* result?.font_name?.trim() || null
nextFont(res) ==
  IF res # None /\ truthy(trim(res[1].font_name))
  THEN Some(trim(res[1].font_name))
  ELSE None

\* useEffect(..., [result]): runs after a render in which result is not the
\* object it was
useEffectResult(prev, next) ==
  IF next = prev \/ nextFont(next) = None \/ currentFontRef = nextFont(next)
  THEN UNCHANGED <<currentFontRef, head>>
  ELSE /\ head' = loadGoogleFont(head, nextFont(next)[1])
       /\ currentFontRef' = nextFont(next)

\* ---------------------------------------------------------- ResultDisplay
\* what ResultDisplay renders: the error box, or else the spinner, or else
\* the suggestion and the preview, or else nothing
ResultDisplay(err, ld, res) ==
  IF err # None /\ truthy(err[1])
  THEN [error |-> err,  spinner |-> FALSE, suggestion |-> None]
  ELSE IF ld
  THEN [error |-> None, spinner |-> TRUE,  suggestion |-> None]
  ELSE [error |-> None, spinner |-> FALSE, suggestion |-> res]

\* the slot a new invocation runs in: the lowest one not suspended
slotFree(p) ==
  /\ pc[p] \notin Suspended
  /\ \A q \in Procs : q < p => pc[q] \in Suspended

\* fetch(API_URL, {method: "POST", body: JSON.stringify({prompt})})
request(p, cp) == [from |-> p, prompt |-> cp]

\* mutant of finally: the latch is not released
finallyKeepsLatch(p) ==
  /\ inFlightRef' = inFlightRef
  /\ loading' = FALSE
  /\ pc' = [pc EXCEPT ![p] = "done"]

\* finally { inFlightRef.current = false; setLoading(false); }
finally(p) ==
  /\ inFlightRef' = FALSE
  /\ loading' = FALSE
  /\ pc' = [pc EXCEPT ![p] = "done"]

\* catch (err) of the outer try, up to the first await in it
catch(p, errorMsg) ==
  IF isNetworkError(errorMsg)
  THEN /\ pc' = [pc EXCEPT ![p] = "mockDelay"]
       /\ UNCHANGED <<result, loading, error, inFlightRef, lastPromptRef>>
  ELSE /\ error' = Some(MsgServerError(errorMsg))
       /\ finally(p)
       /\ UNCHANGED <<result, lastPromptRef>>

\* the code after the retry loop, up to the await of response.json()
afterLoop(resp) ==
  IF resp = None \/ ~ok(resp[1]) THEN "errJson" ELSE "okJson"

\* mutant of handleSubmit: setError(null) is missing
handleSubmitKeepsError(title) ==
  LET cp == trimmedPrompt(title) IN
  /\ mounted
  /\ UNCHANGED page
  /\ IF ~truthy(cp)
     THEN /\ error' = Some(MsgEnterTitle)
          /\ lastCall' = "empty"
          /\ UNCHANGED <<result, loading, inFlightRef, lastPromptRef, pc,
                         locals, resultUpdate, network>>
     ELSE IF inFlightCheck
     THEN /\ lastCall' = "inFlight"
          /\ UNCHANGED <<result, loading, error, inFlightRef,
                         lastPromptRef, pc, locals, resultUpdate, network>>
     ELSE IF samePromptCheck(cp)
     THEN /\ lastCall' = "samePrompt"
          /\ UNCHANGED <<result, loading, error, inFlightRef,
                         lastPromptRef, pc, locals, resultUpdate, network>>
     ELSE \E p \in Procs :
          /\ slotFree(p)
          /\ inFlightRef' = TRUE
          /\ loading' = TRUE
          /\ error' = error
          /\ pc' = [pc EXCEPT ![p] = "fetch"]
          /\ currentPrompt' = [currentPrompt EXCEPT ![p] = cp]
          /\ i' = [i EXCEPT ![p] = 0]
          /\ response' = [response EXCEPT ![p] = None]
          /\ attempts' = [attempts EXCEPT ![p] = 1]
          /\ outcomes' = [outcomes EXCEPT ![p] = <<>>]
          /\ delays' = [delays EXCEPT ![p] = <<>>]
          /\ resultUpdate' = [resultUpdate EXCEPT ![p] = "none"]
          /\ network' = network \cup {request(p, cp)}
          /\ lastCall' = "started"
          /\ UNCHANGED <<result, lastPromptRef>>

\* handleSubmit(e, initialPrompt), from its entry to the first await
handleSubmit(title) ==
  LET cp == trimmedPrompt(title) IN
  /\ mounted
  /\ UNCHANGED page
  /\ IF ~truthy(cp)
     THEN /\ error' = Some(MsgEnterTitle)
          /\ lastCall' = "empty"
          /\ UNCHANGED <<result, loading, inFlightRef, lastPromptRef, pc,
                         locals, resultUpdate, network>>
     ELSE IF inFlightCheck
     THEN /\ lastCall' = "inFlight"
          /\ UNCHANGED <<result, loading, error, inFlightRef,
                         lastPromptRef, pc, locals, resultUpdate, network>>
     ELSE IF samePromptCheck(cp)
     THEN /\ lastCall' = "samePrompt"
          /\ UNCHANGED <<result, loading, error, inFlightRef,
                         lastPromptRef, pc, locals, resultUpdate, network>>
     ELSE \E p \in Procs :
          /\ slotFree(p)
          /\ inFlightRef' = TRUE
          /\ loading' = TRUE
          /\ error' = None
          /\ pc' = [pc EXCEPT ![p] = "fetch"]
          /\ currentPrompt' = [currentPrompt EXCEPT ![p] = cp]
          /\ i' = [i EXCEPT ![p] = 0]
          /\ response' = [response EXCEPT ![p] = None]
          /\ attempts' = [attempts EXCEPT ![p] = 1]
          /\ outcomes' = [outcomes EXCEPT ![p] = <<>>]
          /\ delays' = [delays EXCEPT ![p] = <<>>]
          /\ resultUpdate' = [resultUpdate EXCEPT ![p] = "none"]
          /\ network' = network \cup {request(p, cp)}
          /\ lastCall' = "started"
          /\ UNCHANGED <<result, lastPromptRef>>

\* await fetch(...) resolves with a response of the given status
fetchResolved(p, status) ==
  LET resp == Some([status |-> status]) IN
  /\ pc[p] = "fetch"
  /\ network' = network \ {request(p, currentPrompt[p])}
  /\ response' = [response EXCEPT ![p] = resp]
  /\ outcomes' = [outcomes EXCEPT ![p] = Append(@, ToString(status))]
  /\ pc' = [pc EXCEPT ![p] =
              IF ok(resp[1]) THEN afterLoop(resp)
              ELSE IF retryable(status) THEN "backoff"
              ELSE afterLoop(resp)]
  /\ UNCHANGED <<result, loading, error, inFlightRef, lastPromptRef,
                 currentPrompt, i, attempts, delays, resultUpdate, lastCall,
                 page>>

\* mutant of fetchRejected: the first throw is already propagated
fetchRejectedNoRetry(p, errorMsg) ==
  /\ pc[p] = "fetch"
  /\ network' = network \ {request(p, currentPrompt[p])}
  /\ outcomes' = [outcomes EXCEPT ![p] = Append(@, "throw")]
  /\ catch(p, errorMsg)
  /\ UNCHANGED <<currentPrompt, i, response, attempts, delays, resultUpdate,
                 lastCall, page>>

\* await fetch(...) rejects with an error of the given message
fetchRejected(p, errorMsg) ==
  /\ pc[p] = "fetch"
  /\ network' = network \ {request(p, currentPrompt[p])}
  /\ outcomes' = [outcomes EXCEPT ![p] = Append(@, "throw")]
  /\ IF i[p] = maxRetries - 1
     THEN catch(p, errorMsg)
     ELSE /\ pc' = [pc EXCEPT ![p] = "backoff"]
          /\ UNCHANGED <<result, loading, error, inFlightRef, lastPromptRef>>
  /\ UNCHANGED <<currentPrompt, i, response, attempts, delays, resultUpdate,
                 lastCall, page>>

\* mutant of backoffElapsed: the loop runs while i <= maxRetries
backoffElapsedOneMore(p) ==
  /\ pc[p] = "backoff"
  /\ delays' = [delays EXCEPT ![p] = Append(@, backoff(i[p]))]
  /\ i' = [i EXCEPT ![p] = @ + 1]
  /\ IF i[p] + 1 <= maxRetries
     THEN /\ pc' = [pc EXCEPT ![p] = "fetch"]
          /\ attempts' = [attempts EXCEPT ![p] = @ + 1]
          /\ network' = network \cup {request(p, currentPrompt[p])}
     ELSE /\ pc' = [pc EXCEPT ![p] = afterLoop(response[p])]
          /\ UNCHANGED <<attempts, network>>
  /\ UNCHANGED <<result, loading, error, inFlightRef, lastPromptRef,
                 currentPrompt, response, outcomes, resultUpdate, lastCall,
                 page>>

\* the backoff timer fires: i++, then the next attempt or the end of the loop
backoffElapsed(p) ==
  /\ pc[p] = "backoff"
  /\ delays' = [delays EXCEPT ![p] = Append(@, backoff(i[p]))]
  /\ i' = [i EXCEPT ![p] = @ + 1]
  /\ IF i[p] + 1 < maxRetries
     THEN /\ pc' = [pc EXCEPT ![p] = "fetch"]
          /\ attempts' = [attempts EXCEPT ![p] = @ + 1]
          /\ network' = network \cup {request(p, currentPrompt[p])}
     ELSE /\ pc' = [pc EXCEPT ![p] = afterLoop(response[p])]
          /\ UNCHANGED <<attempts, network>>
  /\ UNCHANGED <<result, loading, error, inFlightRef, lastPromptRef,
                 currentPrompt, response, outcomes, resultUpdate, lastCall,
                 page>>

\* errData.details || `HTTP error! status: ${...}`; reading details of null throws
thrownMessage(resp, errData) ==
  IF errData.kind = "null" THEN MsgNullDeref
  ELSE IF errData.details # None /\ truthy(errData.details[1])
  THEN errData.details[1]
  ELSE MsgHttpError(resp)

\* await response.json() of an error response settles; the Error is thrown
errorBodyRead(p, body) ==
  LET errData == IF response[p] = None \/ body.kind = "invalid"
                 THEN [kind |-> "object", details |-> None]
                 ELSE body
  IN
  /\ pc[p] = "errJson"
  /\ catch(p, thrownMessage(response[p], errData))
  /\ UNCHANGED <<locals, resultUpdate, network, lastCall, page>>

\* await response.json() of a success response settles.  When data is
\* null the updater returns it if nothing is displayed (prev && ... is
\* then prev) and otherwise throws on data.font_name: React runs it in the
\* render, no state is committed and the component is unmounted.
successBodyRead(p, body) ==
  /\ pc[p] = "okJson"
  /\ IF body.kind = "invalid"
     THEN catch(p, MsgBadJson) /\ UNCHANGED <<resultUpdate, page>>
     ELSE IF body.kind = "null"
     THEN /\ result' = result
          /\ resultUpdate' = [resultUpdate EXCEPT ![p] =
                                IF result = None THEN "null" ELSE "threw"]
          /\ mounted' = (result = None)
          /\ lastPromptRef' = Some(currentPrompt[p])
          /\ resolvedWith' = None
          /\ finally(p)
          /\ UNCHANGED <<error, currentFontRef, head>>
     ELSE LET data == [font_name |-> body.font_name, reason |-> body.reason,
                       ref |-> freshRef(result)]
          IN /\ result' = keepIfSame(result, data)
             /\ resultUpdate' = [resultUpdate EXCEPT ![p] = updateKind(result, result')]
             /\ useEffectResult(result, result')
             /\ lastPromptRef' = Some(currentPrompt[p])
             /\ resolvedWith' = Some(fields(data))
             /\ finally(p)
             /\ UNCHANGED <<error, mounted>>
  /\ UNCHANGED <<locals, network, lastCall>>

\* the 500ms timer of the fallback fires
mockDelayElapsed(p) ==
  /\ pc[p] = "mockDelay"
  /\ result' = keepIfSame(result, MOCK_FONT_SUGGESTION)
  /\ resultUpdate' = [resultUpdate EXCEPT ![p] = updateKind(result, result')]
  /\ useEffectResult(result, result')
  /\ error' = Some(MsgMockActive)
  /\ lastPromptRef' = Some(currentPrompt[p])
  /\ resolvedWith' = Some(fields(MOCK_FONT_SUGGESTION))
  /\ finally(p)
  /\ UNCHANGED <<locals, network, lastCall, mounted>>

Next ==
  \/ \E title \in Titles : handleSubmit(title)
  \/ \E p \in Procs, status \in Statuses : fetchResolved(p, status)
  \/ \E p \in Procs, errorMsg \in FetchErrors : fetchRejected(p, errorMsg)
  \/ \E p \in Procs : backoffElapsed(p)
  \/ \E p \in Procs, body \in ErrorBodies : errorBodyRead(p, body)
  \/ \E p \in Procs, body \in SuccessBodies : successBodyRead(p, body)
  \/ \E p \in Procs : mockDelayElapsed(p)

Spec == Init /\ [][Next]_vars

\* every network attempt settles and every timer fires: the event loop runs
\* a continuation once its promise has settled
Fairness ==
  \A p \in Procs :
    /\ WF_vars(\/ \E status \in Statuses : fetchResolved(p, status)
               \/ \E errorMsg \in FetchErrors : fetchRejected(p, errorMsg))
    /\ WF_vars(backoffElapsed(p))
    /\ WF_vars(\E body \in ErrorBodies : errorBodyRead(p, body))
    /\ WF_vars(\E body \in SuccessBodies : successBodyRead(p, body))
    /\ WF_vars(mockDelayElapsed(p))

FairSpec == Spec /\ Fairness

\* ------------------------------------------------------------------ claims
\* the invocations suspended at an await
InFlight == {p \in Procs : pc[p] \in Suspended}

\* trim, tabulated over the titles
Trimmed == [title \in Titles |-> trim(title)]

\* a step that sends no request and starts no invocation
NoNetworkCall == UNCHANGED <<network, attempts, pc>>

\* C1: a submit whose title is empty after trimming sends no request and
\* ends with error = "Please enter a title to analyze.", whatever the state
\* it is called in.
C1_EmptyTitleYieldsValidationError ==
  [][\A title \in Titles :
       (Trimmed[title] = <<>> /\ handleSubmit(title))
         => (error' = Some(MsgEnterTitle) /\ NoNetworkCall)]_vars

\* C1 witness: an empty title was submitted while a submission was in
\* flight, and the validation error is displayed.
C1_Witness ==
  /\ lastCall = "empty"
  /\ inFlightRef
  /\ error = Some(MsgEnterTitle)
  /\ network # {}

\* C2: with nothing in flight, a submit whose trimmed title is the one in
\* lastPromptRef sends no request and leaves error, loading, result and
\* lastPromptRef as they are.
C2_SamePromptIsSkipped ==
  [][(~inFlightRef /\ lastPromptRef # None) =>
       \A title \in Titles :
         (lastPromptRef = Some(Trimmed[title]) /\ handleSubmit(title))
           => (NoNetworkCall /\ UNCHANGED <<error, loading, result, lastPromptRef>>)]_vars

\* C2 witness: the last prompt, resolved by the fallback, was submitted
\* again and the call returned at the same-prompt check.
C2_Witness ==
  /\ lastCall = "samePrompt"
  /\ ~inFlightRef
  /\ lastPromptRef # None
  /\ result = Some(MOCK_FONT_SUGGESTION)
  /\ error = Some(MsgMockActive)

\* C3: at most one invocation is past the early returns at any time, it
\* holds the latch, and at most one request is outstanding; this covers the
\* attempts, the backoff waits and the fallback delay.
C3_AtMostOneInFlight ==
  /\ Cardinality(InFlight) <= 1
  /\ Cardinality(network) <= 1
  /\ InFlight # {} => inFlightRef
  /\ \A r \in network : r.from \in InFlight

\* C3 witness: a submit was refused at the latch while the only invocation
\* waits for its third attempt's backoff or for the fallback delay.
C3_Witness ==
  /\ lastCall = "inFlight"
  /\ \E p \in Procs : /\ pc[p] \in {"backoff", "mockDelay"}
                      /\ attempts[p] = maxRetries

\* C4 as stated: while a submission is in flight every submit, whatever its
\* title, leaves error, loading, result and lastPromptRef as they are.
C4_AsStated ==
  [][inFlightRef =>
       \A title \in Titles :
         handleSubmit(title) => UNCHANGED <<error, loading, result, lastPromptRef>>]_vars

\* C4 amended: while a submission is in flight, a submit whose title is not
\* empty after trimming leaves error, loading, result and lastPromptRef as
\* they are and sends no request; one whose title is empty after trimming
\* changes error only.
C4_InFlightSubmitIsNoOp ==
  [][inFlightRef =>
       \A title \in Titles :
         handleSubmit(title)
           => /\ NoNetworkCall
              /\ UNCHANGED <<loading, result, lastPromptRef, inFlightRef>>
              /\ Trimmed[title] # <<>> => UNCHANGED error]_vars

\* C4 witness: a submit of a title other than the one in flight returned at
\* the latch.
C4_Witness ==
  /\ lastCall = "inFlight"
  /\ inFlightRef
  /\ loading
  /\ \E p \in Procs : pc[p] = "fetch"

\* the Suggestion a parsed body holds, field by field
SameFields(suggestion, body) ==
  /\ suggestion # None
  /\ suggestion[1].font_name = body.font_name
  /\ suggestion[1].reason = body.reason

\* a body that parses to an object with both fields
ValidBody(body) ==
  /\ body.kind = "object"
  /\ body.font_name # <<>>
  /\ body.reason # UNDEFINED

\* C5 as stated: a submission all of whose attempts threw has ended with the
\* fallback Suggestion displayed, an error set and its title in
\* lastPromptRef.
C5_AsStated ==
  \A p \in Procs :
    (pc[p] = "done" /\ outcomes[p] = <<"throw", "throw", "throw">>)
      => /\ SameFields(result, MOCK_FONT_SUGGESTION)
         /\ error # None
         /\ lastPromptRef = Some(currentPrompt[p])

\* C6: 503, 503, then 200 with a valid body: three attempts, a wait of 500ms
\* then one of 1000ms, and the result holds the fields of the body.
C6_TwoRetriesThenSuccess ==
  [][\A p \in Procs, body \in SuccessBodies :
       (/\ outcomes[p] = <<"503", "503", "200">>
        /\ ValidBody(body)
        /\ successBodyRead(p, body))
         => /\ attempts[p] = 3
            /\ delays[p] = <<500, 1000>>
            /\ pc'[p] = "done"
            /\ SameFields(result', body)]_vars

\* C6 witness: a submission ended after 503, 503, 200 and its Suggestion is
\* displayed.
C6_Witness ==
  \E p \in Procs :
    /\ pc[p] = "done"
    /\ outcomes[p] = <<"503", "503", "200">>
    /\ attempts[p] = 3
    /\ delays[p] = <<500, 1000>>
    /\ resultUpdate[p] = "replaced"
    /\ result # None
    /\ error = None

\* a status that is neither a success, nor 404, nor >= 500
NonRetryable(status) == status \in {"400"}

\* C7 as stated: after a non-retryable error status the body is read at once
\* (no further attempt, no backoff after it) and the error then set contains
\* the details text of the body when there is one.
C7_AsStated ==
  [][\A p \in Procs, body \in ErrorBodies :
       (/\ pc[p] = "errJson"
        /\ NonRetryable(outcomes[p][Len(outcomes[p])])
        /\ errorBodyRead(p, body))
         => /\ attempts[p] = Len(outcomes[p])
            /\ Len(delays[p]) = Len(outcomes[p]) - 1
            /\ (body.kind = "object" /\ body.details # None)
                 => (error' # None /\ includes(error'[1], body.details[1]))]_vars

\* C8: a resolution, real or fallback, whose Suggestion has the font_name
\* and the reason of the displayed one leaves result the very same object,
\* and sets lastPromptRef to the submitted title.
C8_EqualSuggestionKeepsResult ==
  [][\A p \in Procs :
       /\ \A body \in SuccessBodies :
            (/\ body.kind = "object"
             /\ SameFields(result, body)
             /\ successBodyRead(p, body))
              => (result' = result /\ lastPromptRef' = Some(currentPrompt[p]))
       /\ (SameFields(result, MOCK_FONT_SUGGESTION) /\ mockDelayElapsed(p))
              => (result' = result /\ lastPromptRef' = Some(currentPrompt[p]))]_vars

\* C8 witness: a submission resolved with a real response, its updater kept
\* the displayed object, and lastPromptRef holds its title.
C8_Witness ==
  \E p \in Procs :
    /\ pc[p] = "done"
    /\ outcomes[p][Len(outcomes[p])] = "200"
    /\ resultUpdate[p] = "kept"
    /\ result # None
    /\ lastPromptRef = Some(currentPrompt[p])

\* a submit of this title passes the three early returns and starts
Accepted(title) ==
  handleSubmit(title) => (inFlightRef' /\ loading' /\ network' # network)

\* C9 as stated: a submission that passed the early returns eventually
\* releases the latch and clears loading; once an invocation has ended, a
\* submit of a title other than its own is accepted.
C9_AsStated ==
  /\ inFlightRef ~> (~inFlightRef /\ ~loading)
  /\ [][\A p \in Procs :
          (pc[p] = "done" /\ ~inFlightRef) =>
            \A title \in Titles :
              (Trimmed[title] # <<>> /\ Trimmed[title] # currentPrompt[p])
                => Accepted(title)]_vars

\* C9 amended: a submission that passed the early returns eventually
\* releases the latch and clears loading; once an invocation has ended, a
\* submit of a title that is not empty after trimming and is not the one in
\* lastPromptRef is accepted.
C9_LatchIsReleased ==
  /\ inFlightRef ~> (~inFlightRef /\ ~loading)
  /\ [][\A p \in Procs :
          (pc[p] = "done" /\ ~inFlightRef) =>
            \A title \in Titles :
              (Trimmed[title] # <<>> /\ lastPromptRef # Some(Trimmed[title]))
                => Accepted(title)]_vars

\* C9 witness: a submission that used all three attempts and ended in an
\* upstream error has released the latch and cleared loading, while
\* lastPromptRef still holds an earlier title.
C9_Witness ==
  \E p \in Procs :
    /\ pc[p] = "done"
    /\ attempts[p] = maxRetries
    /\ Len(delays[p]) = maxRetries
    /\ error = Some(MsgServerError(MsgHttpError(response[p])))
    /\ ~inFlightRef
    /\ ~loading
    /\ lastPromptRef # None
    /\ lastPromptRef # Some(currentPrompt[p])

\* the message the claim expects for an error response with this body
ExpectedServerError(resp, body) ==
  MsgServerError(IF body.kind = "object" /\ body.details # None /\ body.details[1] # <<>>
                 THEN body.details[1]
                 ELSE MsgHttpError(resp))

\* C10 as stated: when the body of an HTTP error response has been read the
\* submission ends with error built from details or the status, and result
\* and lastPromptRef as they were; the fallback is not entered.
C10_AsStated ==
  [][\A p \in Procs, body \in ErrorBodies :
       (response[p] # None /\ errorBodyRead(p, body))
         => /\ pc'[p] = "done"
            /\ error' = Some(ExpectedServerError(response[p], body))
            /\ UNCHANGED <<result, lastPromptRef>>]_vars

\* the outcome of the latest finished attempt of an invocation
lastOutcome(p) == outcomes[p][Len(outcomes[p])]

\* the remote service answered the latest attempt with an error status
UpstreamError(p) ==
  outcomes[p] # <<>> /\ lastOutcome(p) \notin {"200", "throw"}

\* C11 as stated: lastPromptRef changes only in the step that resolves a
\* submission with the parsed response or with the fallback, and then holds
\* that submission's title, trimmed and not empty; no step of an invocation
\* whose latest attempt got an error status changes it; once set it is
\* never null again.
C11_AsStated ==
  [][/\ lastPromptRef' # lastPromptRef =>
          \E p \in Procs :
            /\ pc[p] \in {"okJson", "mockDelay"}
            /\ pc'[p] = "done"
            /\ lastPromptRef' = Some(currentPrompt[p])
            /\ truthy(currentPrompt[p])
            /\ trim(currentPrompt[p]) = currentPrompt[p]
     /\ \A p \in Procs :
          (pc[p] \in Suspended /\ UpstreamError(p)) => UNCHANGED lastPromptRef
     /\ lastPromptRef # None => lastPromptRef' # None]_vars

\* C12 as stated: the k-th backoff wait of a submission lasts 2^(k-1) * 500ms
\* (it follows attempt i = k - 1), and no backoff wait follows the last
\* allowed attempt (i = 2): after it the error handling starts at once.
C12_AsStated ==
  \A p \in Procs :
    /\ \A k \in 1..Len(delays[p]) : delays[p][k] = (2 ^ (k - 1)) * BaseDelayMs
    /\ pc[p] = "backoff" => i[p] < maxRetries - 1
    /\ Len(delays[p]) <= maxRetries - 1

\* C13: when fetch throws on the first or the second attempt nothing is
\* reported: the backoff wait of 2^i * 500ms follows, then another attempt;
\* a success body read after such a failure is stored as the result; only a
\* throw of the third attempt enters the error handling.
C13_TransportFailureIsRetried ==
  [][\A p \in Procs :
       /\ pc[p] = "fetch" =>
            \A errorMsg \in FetchErrors :
              fetchRejected(p, errorMsg) =>
                IF i[p] < maxRetries - 1
                THEN /\ pc'[p] = "backoff"
                     /\ UNCHANGED <<error, result, loading, inFlightRef, lastPromptRef>>
                ELSE pc'[p] \in {"mockDelay", "done"}
       /\ (pc[p] = "backoff" /\ lastOutcome(p) = "throw" /\ backoffElapsed(p))
            => /\ pc'[p] = "fetch"
               /\ attempts'[p] = attempts[p] + 1
               /\ delays'[p] = Append(delays[p], (2 ^ i[p]) * BaseDelayMs)
       /\ (pc[p] = "okJson" /\ outcomes[p][1] = "throw") =>
            \A body \in SuccessBodies :
              (ValidBody(body) /\ successBodyRead(p, body))
                => (SameFields(result', body) /\ pc'[p] = "done")]_vars

\* C13 witness: a submission whose first two attempts threw ended with the
\* response of the third displayed, after waits of 500ms and 1000ms.
C13_Witness ==
  \E p \in Procs :
    /\ pc[p] = "done"
    /\ outcomes[p] = <<"throw", "throw", "200">>
    /\ delays[p] = <<500, 1000>>
    /\ resultUpdate[p] = "replaced"
    /\ lastPromptRef = Some(currentPrompt[p])
    /\ error = None

\* C14: a submission that passed the early returns has issued at least one
\* and at most three fetch calls, whatever the remote service answered; each
\* call but a pending one has an outcome.
C14_OneToThreeNetworkCalls ==
  \A p \in Procs :
    pc[p] # "idle" =>
      /\ attempts[p] >= 1
      /\ attempts[p] <= 3
      /\ attempts[p] = Len(outcomes[p]) + (IF pc[p] = "fetch" THEN 1 ELSE 0)

\* C14 witness: a submission ended after three calls, the first of which
\* threw and the others of which were answered with a retryable status.
C14_Witness ==
  \E p \in Procs :
    /\ pc[p] = "done"
    /\ attempts[p] = 3
    /\ outcomes[p] = <<"throw", "404", "503">>

\* C15 as stated: in every reachable state loading implies error = null.
C15_AsStated == loading => error = None

\* C15 amended: while loading, error is null or the validation message of
\* an empty title submitted meanwhile; the step that sets loading clears
\* the error.
C15_LoadingClearsError ==
  [][/\ loading => error \in {None, Some(MsgEnterTitle)}
     /\ (~loading /\ loading') => error' = None]_vars

\* C15 witness: a submission started while the fallback advisory of an
\* earlier one was displayed; the advisory is gone, and an empty title
\* submitted since then has set the validation message while loading.
C15_Witness ==
  /\ loading
  /\ result = Some(MOCK_FONT_SUGGESTION)
  /\ error = Some(MsgEnterTitle)

\* <ResultDisplay error={error} loading={loading} result={result} ... />
view == ResultDisplay(error, loading, result)

\* C16 as stated: when, after three attempts that threw, the fallback
\* Suggestion is the result, the error is the mock-active advisory and
\* loading is false, the presentation layer shows the advisory and the
\* fallback Suggestion.
C16_AsStated ==
  (/\ result = Some(MOCK_FONT_SUGGESTION)
   /\ error = Some(MsgMockActive)
   /\ ~loading
   /\ \E p \in Procs : pc[p] = "done" /\ outcomes[p] = <<"throw", "throw", "throw">>)
    => /\ view.error = Some(MsgMockActive)
       /\ SameFields(view.suggestion, MOCK_FONT_SUGGESTION)

\* C17 as stated: in every reachable state a result that is not null has a
\* font_name and a reason, whatever body came with the success status.
C17_AsStated ==
  result # None =>
    /\ result[1].font_name # <<>>
    /\ result[1].reason # UNDEFINED

\* the document holds at most one font link, it records the font last
\* applied, and it is there once a font was applied
OneLinkOfFont(doc, applied) ==
  /\ Len(doc) <= 1
  /\ \A k \in 1..Len(doc) :
       doc[k].id = "google-font-link" /\ Some(doc[k].fontName) = applied
  /\ applied # None => Len(doc) = 1

\* C18: over every sequence of result updates, document.head changes only
\* when the trimmed font_name of the new result is not empty and differs
\* from the font last applied, and then holds the link of that font alone;
\* at all times it holds at most one font link, whose recorded font name is
\* the font last applied.
C18_FontLinkLoaderIsIdempotent ==
  [][/\ head' # head =>
          /\ result' # None
          /\ result' # result
          /\ truthy(trim(result'[1].font_name))
          /\ currentFontRef # Some(trim(result'[1].font_name))
          /\ currentFontRef' = Some(trim(result'[1].font_name))
     /\ currentFontRef' # currentFontRef => head' # head
     /\ OneLinkOfFont(head, currentFontRef)
     /\ OneLinkOfFont(head', currentFontRef')]_vars

\* C18 witness: a parsed response whose font_name is padded replaced a
\* displayed response; the one link in the document records the trimmed
\* name, and its href is built from it.
C18_Witness ==
  /\ result # None
  /\ result[1].font_name = <<" ", "Lobster">>
  /\ result[1].ref = "obj1"
  /\ currentFontRef = Some(<<"Lobster">>)
  /\ Len(head) = 1
  /\ head[1].fontName = <<"Lobster">>
  /\ head[1].href = <<"https://fonts.googleapis.com/css2?family=", "Lobster",
                      ":wght@400;700;900&display=swap">>

\* C19: in every state in which control has been yielded (before a submit,
\* at an await of a fetch, of a body or of a timer, after the end) loading
\* is true exactly when inFlightRef is set.
C19_LoadingIffInFlight == loading <=> inFlightRef

\* C19 witness: during the fallback delay of a submission, after a submit
\* was refused at the latch, the flag and the latch are both set.
C19_Witness ==
  /\ loading
  /\ inFlightRef
  /\ lastCall = "inFlight"
  /\ \E p \in Procs : pc[p] = "mockDelay" /\ outcomes[p] = <<"throw", "throw", "throw">>

\* C20 as stated: in every reachable state in which lastPromptRef holds a
\* title, result is not null and has the font_name and the reason of the
\* data that title was resolved with.
C20_AsStated ==
  lastPromptRef # None =>
    /\ result # None
    /\ resolvedWith # None
    /\ SameFields(result, resolvedWith[1])

====
